---- MODULE Spec2Model ----
(***************************************************************************)
(* Model of the matchstick puzzle engine: segment displays, the symbol     *)
(* catalog, the movement plan generator (TransitionSequence::move_n), the  *)
(* equation engine (apply_transition_sequence, move_n_matchsticks), the    *)
(* arithmetic validator (mathematically_validate), Riddle::solve and the   *)
(* Puzzle state machine.                                                   *)
(*                                                                         *)
(* Data representation                                                     *)
(*   Symbol              a string naming the enum variant                  *)
(*   SegmentDisplay      a record of nine BOOLEAN flags                    *)
(*   Transition          a record [remove, add]                            *)
(*   TransitionSequence  the sequence of its `transitions`                 *)
(*   Equation            the sequence of its `symbols`                     *)
(*   plain text          a sequence of one-character strings               *)
(*   SolutionWrapper     [tag, solution_equations]                         *)
(*   Riddle              [riddle_equation, number_matchstick_movements]    *)
(***************************************************************************)
EXTENDS Integers, Sequences, FiniteSets, TLC

(***************************************************************************)
(* Bounds of the model.                                                    *)
(***************************************************************************)
\* largest movement budget drawn for a riddle
MaxMovements == 2
\* largest length of the equations enumerated over InputSymbols
MaxSymbols == 3
\* the longest equation handed to mathematically_validate on its own
MaxValidated == 5
\* largest number of solutions asked of the puzzle generator
MaxSolutions == 2

(***************************************************************************)
(* Generic sequence helpers (Vec operations used by the code).             *)
(***************************************************************************)
RECURSIVE Concat(_)
\* Vec::append over a list of lists, front to back (evaluated by halving,
\* which keeps the recursion shallow on long lists)
Concat(lists) ==
    IF Len(lists) = 0 THEN <<>>
    ELSE IF Len(lists) = 1 THEN lists[1]
    ELSE LET mid == Len(lists) \div 2
         IN  Concat(SubSeq(lists, 1, mid))
                \o Concat(SubSeq(lists, mid + 1, Len(lists)))

\* the elements of a sequence
Range(s) == {s[i] : i \in 1..Len(s)}

\* how many times x occurs in s
Count(s, x) == Cardinality({i \in 1..Len(s) : s[i] = x})

RECURSIVE SumSeq(_)
SumSeq(s) == IF s = <<>> THEN 0 ELSE Head(s) + SumSeq(Tail(s))

RECURSIVE Pow(_, _)
Pow(b, e) == IF e = 0 THEN 1 ELSE b * Pow(b, e - 1)

RECURSIVE SeqsOfLen(_, _)
\* all sequences of length n over the set S
SeqsOfLen(S, n) ==
    IF n = 0 THEN {<<>>}
    ELSE {<<x>> \o r : x \in S, r \in SeqsOfLen(S, n - 1)}

\* all sequences over S of length at most n
SeqsUpTo(S, n) == UNION {SeqsOfLen(S, k) : k \in 0..n}

(***************************************************************************)
(* segment_display.rs                                                      *)
(***************************************************************************)
\* the nine segment flags, in the order of delta_for_segment_display!
Positions ==
    <<"top", "upper_left", "upper_right", "upper_beam", "middle_beam",
      "pipe", "lower_left", "lower_right", "bottom">>

\* delta_to without the comparison of the two flags: every flag of the
\* target counts
delta_to_all_flags(self, target) ==
    [remove |-> Cardinality({i \in 1..Len(Positions) :
                    target[Positions[i]] = FALSE}),
     add    |-> Cardinality({i \in 1..Len(Positions) :
                    target[Positions[i]] = TRUE})]

\* delta_to with the two arms of the match exchanged
delta_to_swapped(self, target) ==
    [remove |-> Cardinality({i \in 1..Len(Positions) :
                    /\ self[Positions[i]] # target[Positions[i]]
                    /\ target[Positions[i]] = TRUE}),
     add    |-> Cardinality({i \in 1..Len(Positions) :
                    /\ self[Positions[i]] # target[Positions[i]]
                    /\ target[Positions[i]] = FALSE})]

\* SegmentDisplay::delta_to: a differing flag counts as add when the target
\* has it on and as remove when the target has it off
delta_to(self, target) ==
    [remove |-> Cardinality({i \in 1..Len(Positions) :
                    /\ self[Positions[i]] # target[Positions[i]]
                    /\ target[Positions[i]] = FALSE}),
     add    |-> Cardinality({i \in 1..Len(Positions) :
                    /\ self[Positions[i]] # target[Positions[i]]
                    /\ target[Positions[i]] = TRUE})]

(***************************************************************************)
(* symbol.rs                                                               *)
(***************************************************************************)
\* Symbol::get_all: the variants in the order of impl_symbols!
get_all ==
    <<"Minus", "Plus", "Equal", "OneVar1", "OneVar2", "Two", "Three",
      "FourVar1", "FourVar2", "Five", "Six", "Seven", "EightVar1",
      "EightVar2", "Nine", "Zero">>

Symbol == Range(get_all)

\* Symbol::to_str
to_str(symbol) ==
    CASE symbol = "Minus"     -> "-"
      [] symbol = "Plus"      -> "+"
      [] symbol = "Equal"     -> "="
      [] symbol = "OneVar1"   -> "1"
      [] symbol = "OneVar2"   -> "1"
      [] symbol = "Two"       -> "2"
      [] symbol = "Three"     -> "3"
      [] symbol = "FourVar1"  -> "4"
      [] symbol = "FourVar2"  -> "4"
      [] symbol = "Five"      -> "5"
      [] symbol = "Six"       -> "6"
      [] symbol = "Seven"     -> "7"
      [] symbol = "EightVar1" -> "8"
      [] symbol = "EightVar2" -> "8"
      [] symbol = "Nine"      -> "9"
      [] symbol = "Zero"      -> "0"

\* a SegmentDisplay from the flags in the order
\* top, upper_left, upper_right, upper_beam, middle_beam, pipe,
\* lower_left, lower_right, bottom
Display(t, ul, ur, ub, mb, p, ll, lr, b) ==
    [top |-> t, upper_left |-> ul, upper_right |-> ur, upper_beam |-> ub,
     middle_beam |-> mb, pipe |-> p, lower_left |-> ll, lower_right |-> lr,
     bottom |-> b]

\* Symbol::to_segment_display
to_segment_display(symbol) ==
    CASE symbol = "Minus" ->
            Display(FALSE, FALSE, FALSE, FALSE, TRUE, FALSE, FALSE, FALSE, FALSE)
      [] symbol = "Plus" ->
            Display(FALSE, FALSE, FALSE, FALSE, TRUE, TRUE, FALSE, FALSE, FALSE)
      [] symbol = "Equal" ->
            Display(FALSE, FALSE, FALSE, TRUE, TRUE, FALSE, FALSE, FALSE, FALSE)
      [] symbol = "OneVar1" ->
            Display(FALSE, FALSE, TRUE, FALSE, FALSE, FALSE, FALSE, TRUE, FALSE)
      [] symbol = "OneVar2" ->
            Display(FALSE, TRUE, FALSE, FALSE, FALSE, FALSE, TRUE, FALSE, FALSE)
      [] symbol = "Two" ->
            Display(TRUE, FALSE, TRUE, FALSE, TRUE, FALSE, TRUE, FALSE, TRUE)
      [] symbol = "Three" ->
            Display(TRUE, FALSE, TRUE, FALSE, TRUE, FALSE, FALSE, TRUE, TRUE)
      [] symbol = "FourVar1" ->
            Display(FALSE, TRUE, TRUE, FALSE, TRUE, FALSE, FALSE, TRUE, FALSE)
      [] symbol = "FourVar2" ->
            Display(FALSE, TRUE, FALSE, FALSE, TRUE, TRUE, FALSE, FALSE, FALSE)
      [] symbol = "Five" ->
            Display(TRUE, TRUE, FALSE, FALSE, TRUE, FALSE, FALSE, TRUE, TRUE)
      [] symbol = "Six" ->
            Display(TRUE, TRUE, FALSE, FALSE, TRUE, FALSE, TRUE, TRUE, TRUE)
      [] symbol = "Seven" ->
            Display(TRUE, FALSE, TRUE, FALSE, FALSE, FALSE, FALSE, TRUE, FALSE)
      [] symbol = "EightVar1" ->
            Display(TRUE, TRUE, TRUE, FALSE, TRUE, FALSE, TRUE, TRUE, TRUE)
      [] symbol = "EightVar2" ->
            Display(TRUE, TRUE, TRUE, TRUE, TRUE, FALSE, FALSE, FALSE, FALSE)
      [] symbol = "Nine" ->
            Display(TRUE, TRUE, TRUE, FALSE, TRUE, FALSE, FALSE, TRUE, TRUE)
      [] symbol = "Zero" ->
            Display(TRUE, TRUE, TRUE, FALSE, FALSE, FALSE, TRUE, TRUE, TRUE)

\* current_transition of apply_transition for every (source, target) pair:
\* the delta between the two symbols' segment displays, tabulated once
symbol_delta ==
    [source \in Symbol |->
        [variant \in Symbol |->
            delta_to(to_segment_display(source), to_segment_display(variant))]]

\* apply_transition that never yields the source symbol itself
apply_transition_to_other(self, transition) ==
    SelectSeq(get_all,
        LAMBDA variant : variant # self /\ symbol_delta[self][variant] = transition)

\* apply_transition that returns at the first matching variant
apply_transition_first_match(self, transition) ==
    LET matching == SelectSeq(get_all,
                        LAMBDA variant : symbol_delta[self][variant] = transition)
    IN  IF matching = <<>> THEN <<>> ELSE <<Head(matching)>>

\* apply_transition comparing only the add counts
apply_transition_add_only(self, transition) ==
    SelectSeq(get_all,
        LAMBDA variant : symbol_delta[self][variant].add = transition.add)

\* apply_transition comparing only the remove counts
apply_transition_remove_only(self, transition) ==
    SelectSeq(get_all,
        LAMBDA variant : symbol_delta[self][variant].remove = transition.remove)

\* Symbol::apply_transition: the catalog symbols, in catalog order, whose
\* delta from the source symbol equals the given transition
apply_transition(self, transition) ==
    SelectSeq(get_all, LAMBDA variant : symbol_delta[self][variant] = transition)

\* symbol_filter_type with the arm of Equal naming the wrong filter
symbol_filter_type_equal_as_number(symbol) ==
    IF symbol \in {"Minus", "Plus"} THEN "IsOperator" ELSE "IsNumber"

\* the filter type get_corresponding_symbols assigns to a symbol
symbol_filter_type(symbol) ==
    IF symbol \in {"Minus", "Plus", "Equal"} THEN "IsOperator" ELSE "IsNumber"

\* the SymbolFilter variants; List carries its symbols
IsAny == [kind |-> "IsAny", symbols |-> <<>>]

IsNumber == [kind |-> "IsNumber", symbols |-> <<>>]

IsOperator == [kind |-> "IsOperator", symbols |-> <<>>]

List(symbols) == [kind |-> "List", symbols |-> symbols]

\* SymbolFilter::get_corresponding_symbols
get_corresponding_symbols(self) ==
    CASE self.kind = "IsAny" -> get_all
      [] self.kind = "List" -> self.symbols
      [] self.kind \in {"IsNumber", "IsOperator"} ->
            SelectSeq(get_all,
                LAMBDA symbol : symbol_filter_type(symbol) = self.kind)

(***************************************************************************)
(* transition.rs                                                           *)
(***************************************************************************)
\* Transition::default
default_transition == [remove |-> 0, add |-> 0]

\* Transition::remove_one
remove_one(transition) == [transition EXCEPT !.remove = @ + 1]

\* Transition::add_one
add_one(transition) == [transition EXCEPT !.add = @ + 1]

\* with_n_default_transitions building one position too many
with_n_plus_one_default_transitions(n) ==
    [i \in 1..(n + 1) |-> default_transition]

\* TransitionSequence::with_n_default_transitions
with_n_default_transitions(n) ==
    [i \in 1..n |-> default_transition]

\* TransitionSequence::get_number_of_transitions
get_number_of_transitions(self) == Len(self)

\* moved with the matchstick put back at the source index: it never
\* reaches another symbol
moved_within_symbol(self, source_index, target_index) ==
    [self EXCEPT ![source_index + 1] = add_one(remove_one(@))]

\* moved with the add_one call lost: only the removal is recorded
moved_without_add(self, source_index, target_index) ==
    [self EXCEPT ![source_index + 1] = remove_one(@)]

\* the body of the two loops of move_one: the clone of self with one more
\* removal at source_index and one more addition at target_index
\* (indices are 0-based as in the code)
moved(self, source_index, target_index) ==
    LET removed == [self EXCEPT ![source_index + 1] = remove_one(@)]
    IN  [removed EXCEPT ![target_index + 1] = add_one(@)]

\* move_one with the target loop skipping the source index: a matchstick is
\* never moved within one symbol
move_one_between_symbols(self) ==
    LET n == get_number_of_transitions(self)
        pairs == SelectSeq([k \in 1..(n * n) |-> <<(k - 1) \div n, (k - 1) % n>>],
                           LAMBDA pair : pair[1] # pair[2])
    IN  [k \in 1..Len(pairs) |-> moved(self, pairs[k][1], pairs[k][2])]

\* move_one with the inner loop starting at the source index: an ordered
\* pair (source, target) with target < source is never visited
move_one_upper_pairs(self) ==
    LET n == get_number_of_transitions(self)
        pairs == SelectSeq([k \in 1..(n * n) |-> <<(k - 1) \div n, (k - 1) % n>>],
                           LAMBDA pair : pair[1] <= pair[2])
    IN  [k \in 1..Len(pairs) |-> moved(self, pairs[k][1], pairs[k][2])]

\* move_one with the two loops exchanged: target index outer loop, source
\* index inner loop
move_one_target_major(self) ==
    LET n == get_number_of_transitions(self)
    IN  [k \in 1..(n * n) |-> moved(self, (k - 1) % n, (k - 1) \div n)]

\* TransitionSequence::move_one: source index outer loop, target index
\* inner loop, one new sequence pushed per pair
move_one(self) ==
    LET n == get_number_of_transitions(self)
    IN  [k \in 1..(n * n) |-> moved(self, (k - 1) \div n, (k - 1) % n)]

RECURSIVE move_n_recursive(_, _)
\* TransitionSequence::move_n_recursive
move_n_recursive(number_movements, transition_sequences) ==
    IF number_movements = 0
    THEN transition_sequences
    ELSE move_n_recursive(number_movements - 1,
            Concat([i \in 1..Len(transition_sequences) |->
                        move_one(transition_sequences[i])]))

\* TransitionSequence::move_n
move_n(number_movements, number_elements) ==
    move_n_recursive(number_movements,
        <<with_n_default_transitions(number_elements)>>)

(***************************************************************************)
(* equation.rs                                                             *)
(***************************************************************************)
RECURSIVE multi_cartesian_product_first_fastest(_)
\* the product with the first list varying fastest
multi_cartesian_product_first_fastest(lists) ==
    IF lists = <<>> THEN << <<>> >>
    ELSE LET rest == multi_cartesian_product_first_fastest(Tail(lists))
         IN  Concat([j \in 1..Len(rest) |->
                        [i \in 1..Len(Head(lists)) |-> <<Head(lists)[i]>> \o rest[j]]])

RECURSIVE multi_cartesian_product(_)
\* itertools' multi_cartesian_product over a list of lists: one combination
\* per choice of one element from every list, the last list varying
\* fastest; the product of no lists is the single empty combination
multi_cartesian_product(lists) ==
    IF lists = <<>> THEN << <<>> >>
    ELSE LET rest == multi_cartesian_product(Tail(lists))
         IN  Concat([i \in 1..Len(Head(lists)) |->
                        [j \in 1..Len(rest) |-> <<Head(lists)[i]>> \o rest[j]]])

\* the Err(()) of apply_transition_sequence
ShapeErr == [ok |-> FALSE, equations |-> <<>>]

\* apply_transition_sequence that reports an empty result as Err
apply_transition_sequence_err_on_empty(self, transition_sequence) ==
    LET transitioned_symbols ==
            [i \in 1..Len(self) |->
                apply_transition(self[i], transition_sequence[i])]
    IN  IF \/ Len(self) # get_number_of_transitions(transition_sequence)
           \/ \E i \in 1..Len(self) : transitioned_symbols[i] = <<>>
        THEN ShapeErr
        ELSE [ok |-> TRUE,
              equations |-> multi_cartesian_product(transitioned_symbols)]

\* Equation::apply_transition_sequence
apply_transition_sequence(self, transition_sequence) ==
    IF Len(self) # get_number_of_transitions(transition_sequence)
    THEN ShapeErr
    ELSE LET transitioned_symbols ==
                [i \in 1..Len(self) |->
                    apply_transition(self[i], transition_sequence[i])]
         IN  [ok |-> TRUE,
              equations |-> multi_cartesian_product(transitioned_symbols)]

\* apply_all that applies a plan only at its first occurrence in the list
apply_all_first_occurrence(self, all_transition_sequences) ==
    LET applied == [i \in 1..Len(all_transition_sequences) |->
                      apply_transition_sequence(self, all_transition_sequences[i])]
    IN  Concat([i \in 1..Len(applied) |->
                    IF /\ applied[i].ok
                       /\ \A j \in 1..(i - 1) :
                             all_transition_sequences[j] # all_transition_sequences[i]
                    THEN applied[i].equations ELSE <<>>])

\* the loop of move_n_matchsticks over the plans: the equations of every
\* plan whose application is Ok, appended in plan order; an Err is skipped
apply_all(self, all_transition_sequences) ==
    LET applied == [i \in 1..Len(all_transition_sequences) |->
                      apply_transition_sequence(self, all_transition_sequences[i])]
    IN  Concat([i \in 1..Len(applied) |->
                    IF applied[i].ok THEN applied[i].equations ELSE <<>>])

\* Equation::move_n_matchsticks
move_n_matchsticks(self, number_matchsticks) ==
    LET number_symbols == Len(self)
        all_transition_sequences == move_n(number_matchsticks, number_symbols)
    IN  apply_all(self, all_transition_sequences)

\* Equation::to_plain_text
to_plain_text(self) == [i \in 1..Len(self) |-> to_str(self[i])]

\* the decimal value of a digit character
DigitValue(c) ==
    CASE c = "0" -> 0 [] c = "1" -> 1 [] c = "2" -> 2 [] c = "3" -> 3
      [] c = "4" -> 4 [] c = "5" -> 5 [] c = "6" -> 6 [] c = "7" -> 7
      [] c = "8" -> 8 [] c = "9" -> 9

IsDigit(c) == c \in {"0", "1", "2", "3", "4", "5", "6", "7", "8", "9"}

\* the Err of an evaluation
EvalErr == [ok |-> FALSE, value |-> 0]

RECURSIVE eval_scan(_, _, _, _, _, _, _)
\* left-to-right evaluation of a string over digits, '+' and '-':
\*   acc        value of the terms closed so far
\*   op         sign of the pending binary operator (+1 Add, -1 Sub)
\*   neg        sign collected from the unary minuses of the open term
\*   in_number  whether the previous token belongs to a number
\*   num        value of the digits read for the open number
\* A '-' that does not follow a number is a negation, a '+' that does not
\* follow a number misses its left argument, and an operator left without
\* a right argument at the end fails.
eval_scan(chars, i, acc, op, neg, in_number, num) ==
    IF i > Len(chars)
    THEN IF in_number THEN [ok |-> TRUE, value |-> acc + op * neg * num]
         ELSE EvalErr
    ELSE LET c == chars[i] IN
         CASE IsDigit(c) ->
                eval_scan(chars, i + 1, acc, op, neg, TRUE,
                    IF in_number THEN num * 10 + DigitValue(c) ELSE DigitValue(c))
           [] c = "-" ->
                IF in_number
                THEN eval_scan(chars, i + 1, acc + op * neg * num, -1, 1, FALSE, 0)
                ELSE eval_scan(chars, i + 1, acc, op, -neg, FALSE, 0)
           [] c = "+" ->
                IF in_number
                THEN eval_scan(chars, i + 1, acc + op * neg * num, 1, 1, FALSE, 0)
                ELSE EvalErr
           [] OTHER -> EvalErr

\* evalexpr::eval_int on one piece of the plain text
eval_int(chars) == eval_scan(chars, 1, 0, 1, 1, FALSE, 0)

RECURSIVE split_from(_, _, _, _)
\* str::split(pattern): the pieces between the occurrences of the pattern
\* character, empty pieces included (n occurrences give n + 1 pieces)
split_from(chars, pattern, i, current) ==
    IF i > Len(chars) THEN <<current>>
    ELSE IF chars[i] = pattern
         THEN <<current>> \o split_from(chars, pattern, i + 1, <<>>)
         ELSE split_from(chars, pattern, i + 1, Append(current, chars[i]))

split(chars, pattern) == split_from(chars, pattern, 1, <<>>)

\* mathematically_validate without the comparison of the values: every
\* piece only has to evaluate
mathematically_validate_without_comparison(self) ==
    LET pieces == split(to_plain_text(self), "=")
    IN  /\ Len(pieces) >= 2
        /\ \A i \in 1..Len(pieces) : eval_int(pieces[i]).ok

\* mathematically_validate that skips the pieces that are empty
mathematically_validate_skipping_empty(self) ==
    LET pieces == SelectSeq(split(to_plain_text(self), "="), LAMBDA p : p # <<>>)
        equation_expressions == [i \in 1..Len(pieces) |-> eval_int(pieces[i])]
    IN  /\ Len(equation_expressions) >= 2
        /\ \A i \in 1..Len(equation_expressions) :
              /\ equation_expressions[i].ok
              /\ equation_expressions[i].value = equation_expressions[1].value

\* Equation::mathematically_validate: TRUE for Ok(()), FALSE for Err(())
mathematically_validate(self) ==
    LET equation_string == to_plain_text(self)
        pieces == split(equation_string, "=")
        equation_expressions == [i \in 1..Len(pieces) |-> eval_int(pieces[i])]
    IN  IF Len(equation_expressions) < 2 THEN FALSE
        ELSE IF ~equation_expressions[1].ok THEN FALSE
        ELSE \A i \in 1..Len(equation_expressions) :
                /\ equation_expressions[i].ok
                /\ equation_expressions[i].value = equation_expressions[1].value

\* derive_concrete_equations keeping only the combinations that validate
derive_valid_concrete_equations(self) ==
    SelectSeq(
        multi_cartesian_product(
            [i \in 1..Len(self) |-> get_corresponding_symbols(self[i])]),
        mathematically_validate)

\* EquationPattern::derive_concrete_equations (an EquationPattern is the
\* sequence of its symbol_filters)
derive_concrete_equations(self) ==
    LET symbols_for_positions ==
            [i \in 1..Len(self) |-> get_corresponding_symbols(self[i])]
    IN  multi_cartesian_product(symbols_for_positions)

\* fulfills_abstract_equation that fails when the lengths differ
fulfills_abstract_equation_same_length(self, abstract_equation) ==
    /\ Len(self) = Len(abstract_equation)
    /\ \A i \in 1..Len(self) :
          self[i] \in Range(get_corresponding_symbols(abstract_equation[i]))

\* Equation::fulfills_abstract_equation: zip stops at the shorter of the
\* equation and the pattern
fulfills_abstract_equation(self, abstract_equation) ==
    \A i \in 1..(IF Len(self) < Len(abstract_equation)
                 THEN Len(self) ELSE Len(abstract_equation)) :
        self[i] \in Range(get_corresponding_symbols(abstract_equation[i]))

(***************************************************************************)
(* puzzle.rs                                                               *)
(***************************************************************************)
\* Riddle::new
new_riddle(equation, number_matchstick_movements) ==
    [riddle_equation |-> equation,
     number_matchstick_movements |-> number_matchstick_movements]

\* SolutionWrapper::NotYetSet
NotYetSet == [tag |-> "NotYetSet", solution_equations |-> <<>>]

\* new_manually_set_solution building the other Solution-carrying variant
new_manually_set_as_programmatically(solution_equations) ==
    [tag |-> "ProgrammaticallySet", solution_equations |-> solution_equations]

\* SolutionWrapper::new_manually_set_solution
new_manually_set_solution(solution_equations) ==
    [tag |-> "ManuallySet", solution_equations |-> solution_equations]

\* SolutionWrapper::new_programmatically_set_solution
new_programmatically_set_solution(solution_equations) ==
    [tag |-> "ProgrammaticallySet", solution_equations |-> solution_equations]

\* the filter of Riddle::solve keeping every equation
filter_map_keep_all(transformed_equations) == transformed_equations

RECURSIVE filter_map_validate(_)
\* the filter_map of Riddle::solve: yields Some(equation) exactly for the
\* equations that validate and keeps them in iteration order (evaluated by
\* halving, which keeps the recursion shallow on long lists)
filter_map_validate(transformed_equations) ==
    IF Len(transformed_equations) = 0 THEN <<>>
    ELSE IF Len(transformed_equations) = 1
         THEN (IF mathematically_validate(transformed_equations[1])
               THEN transformed_equations ELSE <<>>)
    ELSE LET mid == Len(transformed_equations) \div 2
         IN  filter_map_validate(SubSeq(transformed_equations, 1, mid))
                \o filter_map_validate(SubSeq(transformed_equations, mid + 1,
                                              Len(transformed_equations)))

\* Riddle::solve without the filter: every transformed equation is kept
solve_without_validation(self) ==
    new_programmatically_set_solution(
        move_n_matchsticks(self.riddle_equation,
                           self.number_matchstick_movements))

\* Riddle::solve
solve(self) ==
    LET transformed_equations ==
            move_n_matchsticks(self.riddle_equation,
                               self.number_matchstick_movements)
        solution_equations == filter_map_validate(transformed_equations)
    IN  new_programmatically_set_solution(solution_equations)

\* new_from_riddle that starts the puzzle with an empty manually set
\* solution
new_from_riddle_manually_set(r) ==
    [riddle |-> r, wrappped_solution |-> new_manually_set_solution(<<>>)]

\* Puzzle::new_from_riddle
new_from_riddle(r) == [riddle |-> r, wrappped_solution |-> NotYetSet]

\* SolutionWrapper::get_inner_reference
get_inner_reference(self) ==
    IF self.tag = "NotYetSet"
    THEN [ok |-> FALSE, solution_equations |-> <<>>]
    ELSE [ok |-> TRUE, solution_equations |-> self.solution_equations]

\* Puzzle::search_and_set_solution on a puzzle value: the puzzle after the
\* call, the returned count and whether the call panicked
searched(puzzle) ==
    LET wrapper == solve(puzzle.riddle)
    IN  [puzzle   |-> [puzzle EXCEPT !.wrappped_solution = wrapper],
         panicked |-> wrapper.tag = "NotYetSet",
         returned |-> IF wrapper.tag = "NotYetSet" THEN -1
                      ELSE Len(wrapper.solution_equations)]

\* Option<EquationPattern>
None == [some |-> FALSE, pattern |-> <<>>]

Some(pattern) == [some |-> TRUE, pattern |-> pattern]

\* PuzzleGenerator::new
new_puzzle_generator(riddle_equation_pattern, number_matchstick_movements) ==
    [riddle_equation_pattern     |-> riddle_equation_pattern,
     number_matchstick_movements |-> number_matchstick_movements,
     solution_equation_pattern   |-> None]

\* PuzzleGenerator::set_solution_equation_pattern
set_solution_equation_pattern(self, solution_equation_pattern) ==
    [self EXCEPT !.solution_equation_pattern = Some(solution_equation_pattern)]

\* the solution pattern test passed as soon as one solution equation
\* fulfils the pattern
solution_pattern_any_fulfils(self, puzzle) ==
    self.solution_equation_pattern.some =>
        LET solution == get_inner_reference(puzzle.wrappped_solution)
        IN  /\ solution.ok
            /\ \E i \in 1..Len(solution.solution_equations) :
                  fulfills_abstract_equation(solution.solution_equations[i],
                      self.solution_equation_pattern.pattern)

\* the solution pattern test of derive_puzzles_with_n_solutions: passed
\* when no pattern is set, else when the solution can be unwrapped and
\* every solution equation fulfils the pattern
solution_pattern_fulfilled(self, puzzle) ==
    self.solution_equation_pattern.some =>
        LET solution == get_inner_reference(puzzle.wrappped_solution)
        IN  /\ solution.ok
            /\ \A i \in 1..Len(solution.solution_equations) :
                  fulfills_abstract_equation(solution.solution_equations[i],
                      self.solution_equation_pattern.pattern)

\* PuzzleGenerator::derive_puzzles_with_n_solutions: for every concrete
\* riddle equation in order, a puzzle is built and searched and is pushed
\* when the count and the solution pattern test pass; a panic of a search
\* ends the call
derive_puzzles_with_n_solutions(self, number_solutions) ==
    LET riddle_equations ==
            derive_concrete_equations(self.riddle_equation_pattern)
        outcomes ==
            [i \in 1..Len(riddle_equations) |->
                searched(new_from_riddle(
                    new_riddle(riddle_equations[i],
                               self.number_matchstick_movements)))]
        pushed ==
            SelectSeq(outcomes,
                LAMBDA outcome :
                    /\ number_solutions = outcome.returned
                    /\ solution_pattern_fulfilled(self, outcome.puzzle))
    IN  IF \E i \in 1..Len(outcomes) : outcomes[i].panicked
        THEN [panicked |-> TRUE, puzzles |-> <<>>]
        ELSE [panicked |-> FALSE,
              puzzles  |-> [i \in 1..Len(pushed) |-> pushed[i].puzzle]]

(***************************************************************************)
(* Inputs.                                                                 *)
(***************************************************************************)
\* the symbols the enumerated riddle equations are built from
InputSymbols == {"Three", "Five", "Equal"}

\* the riddle equations of the engine runs: every sequence of at most
\* MaxSymbols input symbols (the empty equation included) and every
\* equation of a single catalog symbol
InputEquations ==
    SeqsUpTo(InputSymbols, MaxSymbols) \cup SeqsOfLen(Symbol, 1)

\* the riddle of the documentation example: 7-3=4 with one movement
DocRiddles ==
    {new_riddle(<<"Seven", "Minus", "Three", "Equal", "FourVar1">>, 1)}

\* the riddles of the engine runs
InputRiddles ==
    {new_riddle(e, m) : e \in InputEquations, m \in 0..MaxMovements}
        \cup DocRiddles

\* the riddle equations of the Puzzle runs: 3=3, 3=5, 5-3 and the empty one
PuzzleEquations ==
    {<<"Three", "Equal", "Three">>, <<"Three", "Equal", "Five">>,
     <<"Five", "Minus", "Three">>, <<>>}

\* the riddles of the Puzzle runs
PuzzleRiddles ==
    {new_riddle(e, m) : e \in PuzzleEquations, m \in 0..MaxMovements}

\* the equation lists a caller hands to new_manually_set_solution: empty,
\* a valid equation, an invalid one, a list with a repetition
ManualEquationLists ==
    {<<>>,
     << <<"Five", "Equal", "Five">> >>,
     << <<"Three">> >>,
     << <<"Three", "Equal", "Five">>, <<"Three", "Equal", "Five">> >>}

\* the SolutionWrapper values a caller of the crate can build: the variants
\* are public, but Solution has a private field and SolutionWrapper is not
\* Clone, so the only constructors are the unit variant NotYetSet and
\* new_manually_set_solution
CallerWrappers ==
    {NotYetSet} \cup {new_manually_set_solution(l) : l \in ManualEquationLists}

\* every SegmentDisplay: the nine flags chosen freely
Displays == [Range(Positions) -> BOOLEAN]

\* the calls of Symbol::apply_transition: every symbol with every
\* transition whose counts are at most the number of segments
ApplyTransitionCalls ==
    {[function |-> "apply_transition", self |-> s,
      transition |-> [remove |-> r, add |-> a]] :
        s \in Symbol, r \in 0..Len(Positions), a \in 0..Len(Positions)}

\* the transitions the drawn plans are built from
InputTransitions ==
    {[remove |-> 0, add |-> 0], [remove |-> 1, add |-> 1],
     [remove |-> 0, add |-> 1], [remove |-> 1, add |-> 0]}

\* the calls of Equation::apply_transition_sequence: the drawn equations
\* with every plan of at most MaxSymbols drawn transitions, so that the
\* lengths agree for some pairs and differ for others
ApplyTransitionSequenceCalls ==
    {[function |-> "apply_transition_sequence", self |-> e,
      transition_sequence |-> p] :
        e \in InputEquations, p \in SeqsUpTo(InputTransitions, MaxSymbols)}

\* the filters of the get_corresponding_symbols runs: the three unit
\* variants and a List of every drawn equation's symbols
InputFilters ==
    {IsAny, IsNumber, IsOperator} \cup {List(e) : e \in InputEquations}

\* the calls of SymbolFilter::get_corresponding_symbols
CorrespondingSymbolsCalls ==
    {[function |-> "get_corresponding_symbols", self |-> f] : f \in InputFilters}

\* the filters the drawn patterns are built from
PatternFilters ==
    {IsNumber, IsOperator, List(<<"Three", "Five">>), List(<<>>)}

\* the patterns of the pattern runs: every sequence of at most MaxSymbols
\* pattern filters, and two patterns with IsAny
InputPatterns ==
    SeqsUpTo(PatternFilters, MaxSymbols) \cup {<<IsAny>>, <<IsAny, IsOperator>>}

\* the calls of EquationPattern::derive_concrete_equations
DeriveConcreteEquationsCalls ==
    {[function |-> "derive_concrete_equations", self |-> p] : p \in InputPatterns}

\* the symbols of the equations handed to mathematically_validate on its
\* own: the symbols of the tests valid_equation_result_first and
\* two_individual_equal_signs
ValidatedSymbols == {"Two", "Three", "Five", "Equal", "Minus", "Plus"}

\* the riddle patterns of the generator runs: the patterns of the tests
\* generate_puzzle_with_no_matchstick_movement and no_matching_puzzle, a
\* pattern of four riddles over 3 and 5, one with a repeated list entry,
\* every single symbol, and the empty pattern
RiddlePatterns ==
    {<<IsNumber, List(<<"Equal">>), List(<<"Three">>)>>,
     <<List(<<"Nine">>), List(<<"Equal">>), List(<<"Three">>)>>,
     <<List(<<"Three", "Five">>), List(<<"Equal">>), List(<<"Three", "Five">>)>>,
     <<List(<<"Three", "Three">>), IsOperator, List(<<"Three">>)>>,
     <<IsAny>>,
     <<>>}

\* the solution patterns of the generator runs: one that only some
\* solutions fulfil, one that every solution of three symbols fulfils,
\* and one shorter than the solutions
SolutionPatterns ==
    {<<List(<<"Three">>), IsAny, IsAny>>,
     <<IsNumber, IsOperator, IsNumber>>,
     <<List(<<"Five">>)>>}

\* the generators of the generator runs: as built by new, and with a
\* solution pattern set afterwards
Generators ==
    LET built == {new_puzzle_generator(p, m) :
                    p \in RiddlePatterns, m \in 0..MaxMovements}
    IN  built \cup {set_solution_equation_pattern(g, o) :
                        g \in built, o \in SolutionPatterns}

\* the calls of PuzzleGenerator::derive_puzzles_with_n_solutions
DerivePuzzlesCalls ==
    {[function |-> "derive_puzzles_with_n_solutions", self |-> g,
      number_solutions |-> k] :
        g \in Generators, k \in 0..MaxSolutions}

(***************************************************************************)
(* State.                                                                  *)
(***************************************************************************)
VARIABLES
    riddle,                   \* Puzzle.riddle / the Riddle being solved
    wrappped_solution,        \* Puzzle.wrappped_solution
    returned,                 \* value returned by the last search_and_set_solution
    panicked,                 \* whether a call has panicked
    last_call,                \* the operation that produced the current state
    pc,                       \* position inside Riddle::solve (engine runs)
    all_transition_sequences, \* local of move_n_matchsticks
    transformed_equations,    \* local of Riddle::solve
    solved,                   \* value returned by Riddle::solve
    call,                     \* the last call: its function and arguments
    result                    \* value returned by a function run (call runs)

vars == <<riddle, wrappped_solution, returned, panicked, last_call, pc,
          all_transition_sequences, transformed_equations, solved,
          call, result>>

puzzle_vars == <<wrappped_solution, returned, panicked, last_call>>

engine_vars == <<pc, all_transition_sequences, transformed_equations, solved>>

call_vars == <<call, result>>

\* no value has been returned by a function run
NoResult == [ok |-> FALSE, value |-> <<>>]

\* the engine variables before Riddle::solve has been entered
EngineIdle ==
    /\ pc = "start"
    /\ all_transition_sequences = <<>>
    /\ transformed_equations = <<>>
    /\ solved = NotYetSet

(***************************************************************************)
(* The Puzzle state machine.                                               *)
(***************************************************************************)
\* Puzzle::new_from_riddle on any riddle
Init ==
    /\ \E r \in PuzzleRiddles :
          /\ riddle = new_from_riddle(r).riddle
          /\ wrappped_solution = new_from_riddle(r).wrappped_solution
          /\ call = [function |-> "new_from_riddle", riddle |-> r]
    /\ result = NoResult
    /\ returned = -1
    /\ panicked = FALSE
    /\ last_call = "new_from_riddle"
    /\ EngineIdle

\* store_and_count that keeps a manually set solution instead of
\* overwriting it, and returns the length of what is stored
store_and_count_keep_manual(wrapper) ==
    LET kept == IF wrappped_solution.tag = "ManuallySet"
                THEN wrappped_solution ELSE wrapper
    IN  /\ wrappped_solution' = kept
        /\ IF kept.tag = "NotYetSet"
           THEN panicked' = TRUE /\ UNCHANGED returned
           ELSE /\ returned' = Len(kept.solution_equations)
                /\ UNCHANGED panicked

\* the assignment and the match of search_and_set_solution: the wrapper is
\* stored, then NotYetSet panics and the other variants return the length
\* of the solution list
store_and_count(wrapper) ==
    /\ wrappped_solution' = wrapper
    /\ IF wrapper.tag = "NotYetSet"
       THEN panicked' = TRUE /\ UNCHANGED returned
       ELSE /\ returned' = Len(wrapper.solution_equations)
            /\ UNCHANGED panicked

\* search_and_set_solution that keeps the result of an earlier search
\* instead of solving the riddle again
search_and_set_solution_cached ==
    /\ ~panicked
    /\ store_and_count(IF wrappped_solution.tag = "ProgrammaticallySet"
                       THEN wrappped_solution ELSE solve(riddle))
    /\ last_call' = "search_and_set_solution"
    /\ call' = [function |-> "search_and_set_solution"]
    /\ UNCHANGED <<riddle, engine_vars, result>>

\* Puzzle::search_and_set_solution
search_and_set_solution ==
    /\ ~panicked
    /\ store_and_count(solve(riddle))
    /\ last_call' = "search_and_set_solution"
    /\ call' = [function |-> "search_and_set_solution"]
    /\ UNCHANGED <<riddle, engine_vars, result>>

\* Puzzle::manually_set_solution
manually_set_solution(wrapped_solution) ==
    /\ ~panicked
    /\ wrappped_solution' = wrapped_solution
    /\ last_call' = "manually_set_solution"
    /\ call' = [function |-> "manually_set_solution",
                wrapped_solution |-> wrapped_solution]
    /\ UNCHANGED <<riddle, returned, panicked, engine_vars, result>>

\* set_riddle that also forgets the stored solution
set_riddle_and_reset(r) ==
    /\ ~panicked
    /\ riddle' = r
    /\ wrappped_solution' = NotYetSet
    /\ last_call' = "set_riddle"
    /\ call' = [function |-> "set_riddle", riddle |-> r]
    /\ UNCHANGED <<returned, panicked, engine_vars, result>>

\* Puzzle::set_riddle
set_riddle(r) ==
    /\ ~panicked
    /\ riddle' = r
    /\ last_call' = "set_riddle"
    /\ call' = [function |-> "set_riddle", riddle |-> r]
    /\ UNCHANGED <<wrappped_solution, returned, panicked, engine_vars, result>>

ManuallySetSolution == \E w \in CallerWrappers : manually_set_solution(w)

SetRiddle == \E r \in PuzzleRiddles : set_riddle(r)

Next ==
    \/ search_and_set_solution
    \/ ManuallySetSolution
    \/ SetRiddle

Spec == Init /\ [][Next]_vars

(***************************************************************************)
(* The engine runs: search_and_set_solution on a puzzle freshly built from  *)
(* a drawn riddle, one step per call level (move_n, the plan loop of       *)
(* move_n_matchsticks, the filter of Riddle::solve, the store and count    *)
(* of search_and_set_solution).                                            *)
(***************************************************************************)
InitSolve ==
    /\ riddle \in InputRiddles
    /\ wrappped_solution = NotYetSet
    /\ returned = -1
    /\ panicked = FALSE
    /\ last_call = "new_from_riddle"
    /\ call = [function |-> "new_from_riddle", riddle |-> riddle]
    /\ result = NoResult
    /\ EngineIdle

\* move_n_matchsticks up to its call of TransitionSequence::move_n
MoveN ==
    /\ pc = "start"
    /\ all_transition_sequences' =
          move_n(riddle.number_matchstick_movements, Len(riddle.riddle_equation))
    /\ pc' = "planned"
    /\ UNCHANGED <<riddle, puzzle_vars, call_vars, transformed_equations, solved>>

\* the rest of move_n_matchsticks: its loop over the plans
MoveNMatchsticks ==
    /\ pc = "planned"
    /\ transformed_equations' =
          apply_all(riddle.riddle_equation, all_transition_sequences)
    /\ pc' = "moved"
    /\ UNCHANGED <<riddle, puzzle_vars, call_vars, all_transition_sequences, solved>>

\* the rest of Riddle::solve: the filter and the wrapping
Solve ==
    /\ pc = "moved"
    /\ solved' = new_programmatically_set_solution(
                    filter_map_validate(transformed_equations))
    /\ pc' = "solved"
    /\ UNCHANGED <<riddle, puzzle_vars, call_vars, all_transition_sequences,
                   transformed_equations>>

\* the rest of search_and_set_solution: the store and the returned count
StoreAndCount ==
    /\ pc = "solved"
    /\ store_and_count(solved)
    /\ last_call' = "search_and_set_solution"
    /\ pc' = "returned"
    /\ call' = [function |-> "search_and_set_solution"]
    /\ UNCHANGED <<riddle, all_transition_sequences, transformed_equations,
                   solved, result>>

NextSolve ==
    \/ MoveN
    \/ MoveNMatchsticks
    \/ Solve
    \/ StoreAndCount

SpecSolve == InitSolve /\ [][NextSolve]_vars

(***************************************************************************)
(* The function runs: one call of a function on drawn arguments, with no   *)
(* puzzle involved.                                                        *)
(***************************************************************************)
\* a call drawn from the given set is about to be made
InitCall(calls) ==
    /\ call \in calls
    /\ result = NoResult
    /\ riddle = new_riddle(<<>>, 0)
    /\ wrappped_solution = NotYetSet
    /\ returned = -1
    /\ panicked = FALSE
    /\ last_call = "none"
    /\ EngineIdle

\* the called function returns the given value
Returns(function, value) ==
    /\ pc = "start"
    /\ call.function = function
    /\ result' = [ok |-> TRUE, value |-> value]
    /\ pc' = "returned"
    /\ UNCHANGED <<riddle, puzzle_vars, all_transition_sequences,
                   transformed_equations, solved, call>>

\* SegmentDisplay::delta_to is called on every pair of displays
InitDeltaTo ==
    \E a \in Displays, b \in Displays :
        InitCall({[function |-> "delta_to", self |-> a, target |-> b]})

\* a call of SegmentDisplay::delta_to
DeltaTo == Returns("delta_to", delta_to(call.self, call.target))

SpecDeltaTo == InitDeltaTo /\ [][DeltaTo]_vars

InitApplyTransition == InitCall(ApplyTransitionCalls)

\* a call of Symbol::apply_transition
ApplyTransition ==
    Returns("apply_transition", apply_transition(call.self, call.transition))

SpecApplyTransition == InitApplyTransition /\ [][ApplyTransition]_vars

InitApplyTransitionSequence == InitCall(ApplyTransitionSequenceCalls)

\* a call of Equation::apply_transition_sequence
ApplyTransitionSequence ==
    Returns("apply_transition_sequence",
            apply_transition_sequence(call.self, call.transition_sequence))

SpecApplyTransitionSequence ==
    InitApplyTransitionSequence /\ [][ApplyTransitionSequence]_vars

\* apply_transition_sequence is called on a one-symbol equation with the
\* one-position plan whose transition is the delta from its symbol to a
\* target symbol; the call records the target
InitRoundTrip ==
    InitCall({[function |-> "apply_transition_sequence",
               self |-> <<s>>,
               transition_sequence |->
                    <<delta_to(to_segment_display(s), to_segment_display(t))>>,
               target |-> t] : s \in Symbol, t \in Symbol})

SpecRoundTrip == InitRoundTrip /\ [][ApplyTransitionSequence]_vars

InitCorrespondingSymbols == InitCall(CorrespondingSymbolsCalls)

\* a call of SymbolFilter::get_corresponding_symbols
CorrespondingSymbols ==
    Returns("get_corresponding_symbols", get_corresponding_symbols(call.self))

SpecCorrespondingSymbols ==
    InitCorrespondingSymbols /\ [][CorrespondingSymbols]_vars

InitDeriveConcreteEquations == InitCall(DeriveConcreteEquationsCalls)

\* a call of EquationPattern::derive_concrete_equations
DeriveConcreteEquations ==
    Returns("derive_concrete_equations", derive_concrete_equations(call.self))

SpecDeriveConcreteEquations ==
    InitDeriveConcreteEquations /\ [][DeriveConcreteEquations]_vars

\* the arguments of Equation::fulfills_abstract_equation: a drawn equation
\* and a drawn pattern
InitFulfills ==
    \E e \in InputEquations, p \in InputPatterns :
        InitCall({[function |-> "fulfills_abstract_equation", self |-> e,
                   abstract_equation |-> p]})

\* a call of Equation::fulfills_abstract_equation
Fulfills ==
    Returns("fulfills_abstract_equation",
            fulfills_abstract_equation(call.self, call.abstract_equation))

SpecFulfills == InitFulfills /\ [][Fulfills]_vars

\* the argument of Equation::mathematically_validate: an equation of at
\* most MaxValidated symbols
InitMathematicallyValidate ==
    \E e \in SeqsUpTo(ValidatedSymbols, MaxValidated) :
        InitCall({[function |-> "mathematically_validate", self |-> e]})

\* a call of Equation::mathematically_validate
MathematicallyValidate ==
    Returns("mathematically_validate", mathematically_validate(call.self))

SpecMathematicallyValidate ==
    InitMathematicallyValidate /\ [][MathematicallyValidate]_vars

InitDerivePuzzles == InitCall(DerivePuzzlesCalls)

\* a call of PuzzleGenerator::derive_puzzles_with_n_solutions
DerivePuzzles ==
    Returns("derive_puzzles_with_n_solutions",
            derive_puzzles_with_n_solutions(call.self, call.number_solutions))

SpecDerivePuzzles == InitDerivePuzzles /\ [][DerivePuzzles]_vars

\* the function run has returned
Returned == pc = "returned" /\ result.ok

(***************************************************************************)
(* Abbreviations for the statements below.                                 *)
(***************************************************************************)
\* the inputs of the engine run
Budget == riddle.number_matchstick_movements

Equation == riddle.riddle_equation

\* the remove counts and the add counts of a plan
Removes(plan) == [k \in 1..Len(plan) |-> plan[k].remove]

Adds(plan) == [k \in 1..Len(plan) |-> plan[k].add]

RECURSIVE Compositions(_, _)
\* the sequences of n naturals that sum to total
Compositions(total, n) ==
    IF n = 0 THEN (IF total = 0 THEN {<<>>} ELSE {})
    ELSE UNION {{<<k>> \o r : r \in Compositions(total - k, n - 1)} :
                    k \in 0..total}

\* every vector of n (remove, add) pairs whose removes and adds sum to m
Distributions(m, n) ==
    {[k \in 1..n |-> [remove |-> r[k], add |-> a[k]]] :
        r \in Compositions(m, n), a \in Compositions(m, n)}

\* move_n has returned in the engine run
Planned == pc \in {"planned", "moved", "solved", "returned"}

\* move_n_matchsticks has returned in the engine run
Moved == pc \in {"moved", "solved", "returned"}

Valid(equation) == mathematically_validate(equation)

(***************************************************************************)
(* C1..C6: the plan generator, move_n_matchsticks and Riddle::solve,       *)
(* checked under SpecSolve.                                                *)
(***************************************************************************)
\* C1: every plan returned by move_n(m, n) has exactly n positions, and its
\* remove counts and its add counts both sum to m.
C1_PlanShapeAndSums ==
    Planned =>
        \A plan \in Range(all_transition_sequences) :
            /\ Len(plan) = Len(Equation)
            /\ SumSeq(Removes(plan)) = Budget
            /\ SumSeq(Adds(plan)) = Budget

\* C1 witness: move_n(2, 3) has returned a plan that removes two segments
\* at the first position and adds one at each of the other two.
C1_Witness ==
    /\ pc = "planned"
    /\ Budget = 2
    /\ Len(Equation) = 3
    /\ \E i \in 1..Len(all_transition_sequences) :
          all_transition_sequences[i] =
              <<[remove |-> 2, add |-> 0], [remove |-> 0, add |-> 1],
                [remove |-> 0, add |-> 1]>>

\* C2: every vector of n (remove, add) pairs whose removes sum to m and
\* whose adds sum to m occurs at least once in move_n(m, n).
C2_PlansComplete ==
    Planned =>
        Distributions(Budget, Len(Equation)) \subseteq Range(all_transition_sequences)

\* C2 witness: move_n(2, 3) has returned, and the 36 distributions of the
\* budget 2 over 3 positions are all among its 81 plans.
C2_Witness ==
    /\ pc = "planned"
    /\ Budget = 2
    /\ Len(Equation) = 3
    /\ Cardinality(Distributions(2, 3)) = 36
    /\ Cardinality(Range(all_transition_sequences)) = 36
    /\ Len(all_transition_sequences) = 81

\* C3: move_n(m, n) returns exactly (n^2)^m plans, duplicates counted; for
\* m = 0 this is the single all-zero plan of n positions.
C3_PlanCount ==
    Planned =>
        /\ Len(all_transition_sequences) = Pow(Len(Equation) * Len(Equation), Budget)
        /\ Budget = 0 =>
              all_transition_sequences =
                  << [k \in 1..Len(Equation) |-> [remove |-> 0, add |-> 0]] >>

\* C3 witness: move_n(2, 2) has returned 16 plans, fewer of them distinct.
C3_Witness ==
    /\ pc = "planned"
    /\ Budget = 2
    /\ Len(Equation) = 2
    /\ Len(all_transition_sequences) = 16
    /\ Cardinality(Range(all_transition_sequences)) < 16

\* C4: move_n_matchsticks(e, 0) is the list holding exactly e, once.
C4_ZeroBudgetIdentity ==
    (Moved /\ Budget = 0) => transformed_equations = <<Equation>>

\* C4 witness: move_n_matchsticks has returned for the riddle 3=5 with
\* budget 0.
C4_Witness ==
    /\ pc = "moved"
    /\ Budget = 0
    /\ Equation = <<"Three", "Equal", "Five">>
    /\ Len(transformed_equations) = 1

\* C5: Riddle::solve returns, as a programmatically-set solution, exactly
\* the sub-list of move_n_matchsticks(riddle_equation, budget) of the
\* equations that validate: same order, same multiplicity, no invalid
\* equation kept, no valid one dropped.
C5_SolveIsValidSublist ==
    pc \in {"solved", "returned"} =>
        /\ solved.tag = "ProgrammaticallySet"
        /\ solved.solution_equations = SelectSeq(transformed_equations, Valid)
        /\ \A x \in Range(transformed_equations) :
              Count(solved.solution_equations, x) =
                  (IF Valid(x) THEN Count(transformed_equations, x) ELSE 0)

\* C5 witness: solve has returned for a riddle where the filter dropped an
\* invalid candidate and kept a repeated valid one.
C5_Witness ==
    /\ pc = "solved"
    /\ \E x \in Range(transformed_equations) : ~Valid(x)
    /\ \E x \in Range(solved.solution_equations) :
          Count(solved.solution_equations, x) > 1

\* C6: plans are not deduplicated: for m >= 2 and n >= 2 some plan occurs
\* more than once in move_n(m, n) (for m = 2, n = 2 the plan with remove 1 /
\* add 1 at both positions occurs 4 times), every equation such a plan
\* yields occurs in move_n_matchsticks as often as the plan occurs, and the
\* number returned by search_and_set_solution counts every repetition.
C6_DuplicatesKept ==
    pc = "returned" =>
        /\ (Budget >= 2 /\ Len(Equation) >= 2) =>
              Cardinality(Range(all_transition_sequences))
                  < Len(all_transition_sequences)
        /\ (Budget = 2 /\ Len(Equation) = 2) =>
              Count(all_transition_sequences,
                    <<[remove |-> 1, add |-> 1], [remove |-> 1, add |-> 1]>>) = 4
        /\ \A plan \in Range(all_transition_sequences) :
              \A x \in Range(apply_transition_sequence(Equation, plan).equations) :
                  Count(transformed_equations, x) =
                      Count(all_transition_sequences, plan)
        /\ returned = Cardinality({i \in 1..Len(transformed_equations) :
                                      Valid(transformed_equations[i])})

\* C6 witness: the search on 3=3 with budget 2 has returned a count that
\* includes the equation 5=5 four times.
C6_Witness ==
    /\ pc = "returned"
    /\ Budget = 2
    /\ Equation = <<"Three", "Equal", "Three">>
    /\ Count(solved.solution_equations, <<"Five", "Equal", "Five">>) = 4
    /\ returned > Cardinality(Range(solved.solution_equations))

(***************************************************************************)
(* C7..C10: the Puzzle state machine, checked under Spec.                  *)
(***************************************************************************)
\* C7: from any Puzzle state, search_and_set_solution does not panic,
\* leaves the puzzle found-by-search holding the validating candidates of
\* the current riddle (whatever was stored before), leaves the riddle
\* unchanged and returns the length of the stored solution list.
C7_SearchSetsSolution ==
    [][last_call' = "search_and_set_solution" =>
          /\ ~panicked'
          /\ riddle' = riddle
          /\ wrappped_solution' =
                [tag |-> "ProgrammaticallySet",
                 solution_equations |->
                    SelectSeq(move_n_matchsticks(riddle.riddle_equation,
                                                 riddle.number_matchstick_movements),
                              Valid)]
          /\ returned' = Len(wrappped_solution'.solution_equations)]_vars

\* C7 witness: a search has stored a non-empty solution list and returned
\* its length.
C7_Witness ==
    /\ last_call = "search_and_set_solution"
    /\ ~panicked
    /\ wrappped_solution.tag = "ProgrammaticallySet"
    /\ returned = Len(wrappped_solution.solution_equations)
    /\ returned > 0

C9_ManualSetIsManuallySet ==
    last_call = "manually_set_solution" =>
        /\ wrappped_solution.tag = "ManuallySet"
        /\ wrappped_solution.solution_equations \in ManualEquationLists

\* C10: once the puzzle has left the unresolved state, no operation
\* returns it to the unresolved state.
C10_NeverBackToUnresolved ==
    [][wrappped_solution.tag # "NotYetSet" =>
          wrappped_solution'.tag # "NotYetSet"]_vars

(***************************************************************************)
(* C11, C12: construction and set_riddle, checked under Spec.              *)
(***************************************************************************)
\* C11: a Puzzle built by new_from_riddle from any Riddle starts unresolved
\* (NotYetSet) and holds exactly the given riddle.
C11_NewPuzzleUnresolved ==
    call.function = "new_from_riddle" =>
        /\ wrappped_solution = [tag |-> "NotYetSet", solution_equations |-> <<>>]
        /\ riddle = call.riddle

\* C11 witness: a puzzle has just been built from the riddle 3=5 with
\* budget 2.
C11_Witness ==
    /\ call.function = "new_from_riddle"
    /\ call.riddle.riddle_equation = <<"Three", "Equal", "Five">>
    /\ call.riddle.number_matchstick_movements = 2
    /\ wrappped_solution.tag = "NotYetSet"

\* C12: set_riddle replaces the puzzle's riddle (equation and budget) by
\* the given one and leaves the solution state unchanged, whatever it is.
C12_SetRiddleKeepsSolution ==
    [][call'.function = "set_riddle" =>
          /\ riddle' = call'.riddle
          /\ wrappped_solution' = wrappped_solution]_vars

\* C12 witness: set_riddle has replaced equation and budget of a puzzle
\* whose solution had been found by search and is still stored.
C12_Witness ==
    /\ call.function = "set_riddle"
    /\ riddle = new_riddle(<<>>, 0)
    /\ wrappped_solution.tag = "ProgrammaticallySet"
    /\ wrappped_solution.solution_equations # <<>>

(***************************************************************************)
(* C13, C14: the puzzle generator, checked under SpecDerivePuzzles.        *)
(***************************************************************************)
\* the generator and the target count of the call
Generator == call.self

TargetCount == call.number_solutions

\* the solution list a search of the equation with the generator's budget
\* stores
Found(equation) ==
    SelectSeq(move_n_matchsticks(equation, Generator.number_matchstick_movements),
              Valid)

\* every equation of the list fulfils the generator's solution pattern
AllFulfil(equations) ==
    \A x \in Range(equations) :
        fulfills_abstract_equation(x, Generator.solution_equation_pattern.pattern)

\* the concrete riddle equation yields the target count and, when a
\* solution pattern is set, only solutions that fulfil it
Qualifies(equation) ==
    /\ Len(Found(equation)) = TargetCount
    /\ Generator.solution_equation_pattern.some => AllFulfil(Found(equation))

\* the puzzle with the given riddle equation, the generator's budget and
\* the given list as solution found by search
FoundPuzzle(equation, solution_equations) ==
    [riddle |-> [riddle_equation |-> equation,
                 number_matchstick_movements |->
                    Generator.number_matchstick_movements],
     wrappped_solution |-> [tag |-> "ProgrammaticallySet",
                            solution_equations |-> solution_equations]]

\* C13: derive_puzzles_with_n_solutions(k) returns, in the order of
\* derive_concrete_equations of the riddle pattern, exactly one puzzle for
\* each concrete equation whose search with the generator's budget counts k
\* solutions that all fulfil the solution pattern (when one is set); each
\* puzzle is found-by-search with the generator's budget; one
\* non-conforming solution excludes the puzzle; the result is empty when no
\* concrete equation qualifies.
C13_DerivedPuzzles ==
    Returned =>
        LET qualifying ==
                SelectSeq(derive_concrete_equations(Generator.riddle_equation_pattern),
                          Qualifies)
        IN  /\ ~result.value.panicked
            /\ result.value.puzzles =
                  [i \in 1..Len(qualifying) |->
                      FoundPuzzle(qualifying[i], Found(qualifying[i]))]

\* C13 witness: a call has returned without a concrete equation that has
\* the target count of two solutions, because one of its solutions does
\* not fulfil the solution pattern although the other one does.
C13_Witness ==
    /\ Returned
    /\ Generator.solution_equation_pattern.some
    /\ TargetCount = 2
    /\ \E e \in Range(derive_concrete_equations(Generator.riddle_equation_pattern)) :
          /\ Len(Found(e)) = TargetCount
          /\ ~AllFulfil(Found(e))
          /\ \E x \in Range(Found(e)) : AllFulfil(<<x>>)
          /\ \A i \in 1..Len(result.value.puzzles) :
                result.value.puzzles[i].riddle.riddle_equation # e

\* C14: with budget 0, target count 1 and no solution pattern the result
\* holds one puzzle for exactly the concrete equations that are valid
\* themselves, each with its own riddle equation as only solution; for
\* [IsNumber, List([Equal]), List([Three])] this is the single puzzle 3=3
\* with solution [3=3].
C14_ZeroBudgetKeepsValidRiddles ==
    (/\ Returned
     /\ Generator.number_matchstick_movements = 0
     /\ TargetCount = 1
     /\ ~Generator.solution_equation_pattern.some) =>
        LET valid == SelectSeq(
                        derive_concrete_equations(Generator.riddle_equation_pattern),
                        Valid)
        IN  /\ result.value.puzzles =
                  [i \in 1..Len(valid) |-> FoundPuzzle(valid[i], <<valid[i]>>)]
            /\ Generator.riddle_equation_pattern =
                    <<IsNumber, List(<<"Equal">>), List(<<"Three">>)>>
                  => result.value.puzzles =
                        <<FoundPuzzle(<<"Three", "Equal", "Three">>,
                                      << <<"Three", "Equal", "Three">> >>)>>

\* C14 witness: the call of the test has returned exactly one puzzle.
C14_Witness ==
    /\ Returned
    /\ Generator = new_puzzle_generator(
                      <<IsNumber, List(<<"Equal">>), List(<<"Three">>)>>, 0)
    /\ TargetCount = 1
    /\ Len(result.value.puzzles) = 1

(***************************************************************************)
(* C15: the documentation example, checked under SpecSolve.                *)
(***************************************************************************)
\* C15: solving 7-3=4 (Seven, Minus, Three, Equal, FourVar1) with budget 1
\* yields the solution list of exactly one equation, 1+3=4 (OneVar1, Plus,
\* Three, Equal, FourVar1), and search_and_set_solution returns 1.
C15_SevenMinusThree ==
    (/\ Equation = <<"Seven", "Minus", "Three", "Equal", "FourVar1">>
     /\ Budget = 1) =>
        /\ pc \in {"solved", "returned"} =>
              solved = [tag |-> "ProgrammaticallySet",
                        solution_equations |->
                            << <<"OneVar1", "Plus", "Three", "Equal", "FourVar1">> >>]
        /\ pc = "returned" =>
              /\ wrappped_solution = solved
              /\ returned = 1
              /\ ~panicked

\* C15 witness: the search of 7-3=4 with budget 1 has returned.
C15_Witness ==
    /\ Equation = <<"Seven", "Minus", "Three", "Equal", "FourVar1">>
    /\ Budget = 1
    /\ pc = "returned"
    /\ Len(wrappped_solution.solution_equations) = 1

(***************************************************************************)
(* C16, C17: apply_transition_sequence, checked under                      *)
(* SpecApplyTransitionSequence.                                            *)
(***************************************************************************)
\* the per-position lists of reachable symbols of the call
Reachable ==
    [i \in 1..Len(call.self) |->
        {t \in Symbol :
            delta_to(to_segment_display(call.self[i]), to_segment_display(t))
                = call.transition_sequence[i]}]

\* C16: apply_transition_sequence returns an error exactly when the plan's
\* number of positions differs from the equation's length; with matching
\* lengths it returns Ok, with an empty list when some position has no
\* reachable symbol.
C16_ErrIffLengthsDiffer ==
    Returned =>
        /\ ~result.value.ok <=> Len(call.self) # Len(call.transition_sequence)
        /\ (/\ Len(call.self) = Len(call.transition_sequence)
            /\ \E i \in 1..Len(call.self) : Reachable[i] = {})
              => result.value = [ok |-> TRUE, equations |-> <<>>]

\* C16 witness: a plan of matching length with a position that reaches no
\* symbol has returned Ok with the empty list.
C16_Witness ==
    /\ Returned
    /\ Len(call.self) = 3
    /\ Len(call.transition_sequence) = 3
    /\ Reachable[2] = {}
    /\ Reachable[1] # {}
    /\ result.value.ok
    /\ result.value.equations = <<>>

RECURSIVE Product(_)
\* the product of a sequence of numbers
Product(sizes) == IF sizes = <<>> THEN 1 ELSE Head(sizes) * Product(Tail(sizes))

\* C17: with matching lengths apply_transition_sequence returns the
\* Cartesian product of the per-position reachable-symbol lists: one
\* equation per combination, position order kept, the last position varying
\* fastest; the number of equations is the product of the list sizes and
\* every equation has the input's length.
C17_CartesianProduct ==
    (Returned /\ Len(call.self) = Len(call.transition_sequence)) =>
        LET n == Len(call.self)
            lists == [i \in 1..n |->
                        apply_transition(call.self[i], call.transition_sequence[i])]
            sizes == [i \in 1..n |-> Len(lists[i])]
            \* the choice at position i of combination number k (from 0)
            choice(k, i) == (k \div Product(SubSeq(sizes, i + 1, n))) % sizes[i]
            equations == result.value.equations
        IN  /\ result.value.ok
            /\ Len(equations) = Product(sizes)
            /\ \A k \in 1..Len(equations) :
                  /\ Len(equations[k]) = n
                  /\ \A i \in 1..n :
                        equations[k][i] = lists[i][choice(k - 1, i) + 1]

\* C17 witness: two positions with two reachable symbols each have given
\* four equations, the first two differing only in the last position.
C17_Witness ==
    /\ Returned
    /\ call.self = <<"Three", "Equal", "Three">>
    /\ call.transition_sequence =
          <<[remove |-> 1, add |-> 1], [remove |-> 0, add |-> 0],
            [remove |-> 1, add |-> 1]>>
    /\ result.value.equations =
          << <<"Two", "Equal", "Two">>, <<"Two", "Equal", "Five">>,
             <<"Five", "Equal", "Two">>, <<"Five", "Equal", "Five">> >>

(***************************************************************************)
(* C18, C19: apply_transition, checked under SpecApplyTransition.          *)
(***************************************************************************)
\* the place of a symbol in the catalog
CatalogIndex(symbol) == CHOOSE i \in 1..Len(get_all) : get_all[i] = symbol

\* the edit from one symbol's segment pattern to another's
SegmentEdit(s, t) == delta_to(to_segment_display(s), to_segment_display(t))

\* C18: apply_transition(s, (r, a)) returns exactly the catalog symbols t,
\* in catalog order and each once, whose edit from s has remove = r and
\* add = a; the result may hold zero, one or several symbols.
C18_ReachableSymbols ==
    Returned =>
        LET symbols == result.value
        IN  /\ Range(symbols) =
                  {t \in Symbol :
                      /\ SegmentEdit(call.self, t).remove = call.transition.remove
                      /\ SegmentEdit(call.self, t).add = call.transition.add}
            /\ \A i \in 1..Len(symbols) : \A j \in 1..Len(symbols) :
                  i < j => CatalogIndex(symbols[i]) < CatalogIndex(symbols[j])

\* C18 witness: moving one segment within Three has returned the two
\* symbols Two and Five, in catalog order.
C18_Witness ==
    /\ Returned
    /\ call.self = "Three"
    /\ call.transition = [remove |-> 1, add |-> 1]
    /\ result.value = <<"Two", "Five">>

\* C19: for every symbol s the edit from s's segment pattern to itself is
\* (remove 0, add 0), and apply_transition(s, zero edit) includes s.
C19_ZeroEditKeepsSymbol ==
    /\ SegmentEdit(call.self, call.self) = [remove |-> 0, add |-> 0]
    /\ (Returned /\ call.transition = [remove |-> 0, add |-> 0]) =>
          call.self \in Range(result.value)

\* C19 witness: the zero edit applied to EightVar1 has returned.
C19_Witness ==
    /\ Returned
    /\ call.self = "EightVar1"
    /\ call.transition = [remove |-> 0, add |-> 0]
    /\ "EightVar1" \in Range(result.value)

(***************************************************************************)
(* C20: delta_to, checked under SpecDeltaTo.                               *)
(***************************************************************************)
\* the flags that are on in display a and off in display b
OnThenOff(a, b) == {p \in Range(Positions) : a[p] /\ ~b[p]}

\* C20: a.delta_to(b) has add = number of flags off in a and on in b and
\* remove = number of flags on in a and off in b, so a.delta_to(b) and
\* b.delta_to(a) have remove and add swapped.
C20_DeltaCountsFlags ==
    Returned =>
        /\ result.value.add = Cardinality(OnThenOff(call.target, call.self))
        /\ result.value.remove = Cardinality(OnThenOff(call.self, call.target))
        /\ delta_to(call.target, call.self) =
              [remove |-> result.value.add, add |-> result.value.remove]

\* C20 witness: a delta with two removals, one addition and unchanged
\* flags both on and off has returned.
C20_Witness ==
    /\ Returned
    /\ result.value = [remove |-> 2, add |-> 1]
    /\ \E p \in Range(Positions) : call.self[p] /\ call.target[p]
    /\ \E p \in Range(Positions) : ~call.self[p] /\ ~call.target[p]

(***************************************************************************)
(* C21: the round trip through a symbol's edit, checked under              *)
(* SpecRoundTrip.                                                          *)
(***************************************************************************)
\* the catalog symbols whose edit from s equals the edit from s to t
SameEdit(s, t) == {u \in Symbol : SegmentEdit(s, u) = SegmentEdit(s, t)}

\* C21 as stated: for any two catalog symbols s and t, applying to the
\* equation [s] the one-position plan holding the edit from s to t returns
\* the singleton list with the equation [t].
C21_RoundTripSingleton ==
    Returned =>
        result.value = [ok |-> TRUE, equations |-> << <<call.target>> >>]

\* C21 amended: the call returns Ok with a list that contains [t]; the list
\* holds exactly one equation [u] for every catalog symbol u whose edit from
\* s equals the edit from s to t, so it is the singleton [[t]] exactly when
\* t is the only such symbol.
C21_RoundTripContainsTarget ==
    Returned =>
        LET s == call.self[1]
            t == call.target
            equations == result.value.equations
        IN  /\ result.value.ok
            /\ <<t>> \in Range(equations)
            /\ Range(equations) = {<<u>> : u \in SameEdit(s, t)}
            /\ Len(equations) = Cardinality(SameEdit(s, t))
            /\ equations = << <<t>> >> <=> SameEdit(s, t) = {t}

\* C21 witness: the edit from Three to Two has returned [Two] and [Five].
C21_Witness ==
    /\ Returned
    /\ call.self = <<"Three">>
    /\ call.target = "Two"
    /\ result.value.equations = << <<"Two">>, <<"Five">> >>

(***************************************************************************)
(* C22: the symbol filters, checked under SpecCorrespondingSymbols.        *)
(***************************************************************************)
\* the list runs through the catalog from front to back
InCatalogOrder(symbols) ==
    \A i \in 1..Len(symbols) : \A j \in 1..Len(symbols) :
        i < j => CatalogIndex(symbols[i]) < CatalogIndex(symbols[j])

\* C22: the symbol lists of IsNumber and IsOperator are disjoint, have 13
\* and 3 symbols (operators: Minus, Plus, Equal), and their union is the
\* list of IsAny, which equals Symbol::get_all() with 16 symbols; each list
\* keeps the catalog order.
C22_FilterPartition ==
    (Returned /\ call.self \in {IsAny, IsNumber, IsOperator}) =>
        LET numbers == IF call.self = IsNumber THEN result.value
                       ELSE get_corresponding_symbols(IsNumber)
            operators == IF call.self = IsOperator THEN result.value
                         ELSE get_corresponding_symbols(IsOperator)
            any == IF call.self = IsAny THEN result.value
                   ELSE get_corresponding_symbols(IsAny)
        IN  /\ Range(numbers) \cap Range(operators) = {}
            /\ Len(numbers) = 13
            /\ operators = <<"Minus", "Plus", "Equal">>
            /\ Range(numbers) \cup Range(operators) = Range(any)
            /\ any = get_all
            /\ Len(any) = 16
            /\ InCatalogOrder(numbers)
            /\ InCatalogOrder(operators)
            /\ InCatalogOrder(any)

\* C22 witness: IsNumber has returned its thirteen symbols, from OneVar1 to
\* Zero.
C22_Witness ==
    /\ Returned
    /\ call.self = IsNumber
    /\ Len(result.value) = 13
    /\ result.value[1] = "OneVar1"
    /\ result.value[13] = "Zero"

(***************************************************************************)
(* C23: pattern expansion, checked under SpecDeriveConcreteEquations.      *)
(***************************************************************************)
\* C23: derive_concrete_equations returns one equation per element of the
\* Cartesian product of the per-position filter symbol lists, in position
\* order with the first position varying slowest and no validity filter;
\* the count is the product of the list sizes (39 for
\* [IsNumber, IsOperator]).
C23_PatternExpansion ==
    Returned =>
        LET n == Len(call.self)
            lists == [i \in 1..n |-> get_corresponding_symbols(call.self[i])]
            sizes == [i \in 1..n |-> Len(lists[i])]
            choice(k, i) == (k \div Product(SubSeq(sizes, i + 1, n))) % sizes[i]
            equations == result.value
        IN  /\ Len(equations) = Product(sizes)
            /\ \A k \in 1..Len(equations) :
                  equations[k] = [i \in 1..n |-> lists[i][choice(k - 1, i) + 1]]
            /\ call.self = <<IsNumber, IsOperator>> => Len(equations) = 39

\* C23 witness: [IsNumber, IsOperator] has returned 39 equations, none of
\* them valid, starting 1-, 1+, 1= with the first position unchanged.
C23_Witness ==
    /\ Returned
    /\ call.self = <<IsNumber, IsOperator>>
    /\ Len(result.value) = 39
    /\ SubSeq(result.value, 1, 3) =
          << <<"OneVar1", "Minus">>, <<"OneVar1", "Plus">>, <<"OneVar1", "Equal">> >>
    /\ \A k \in 1..39 : ~Valid(result.value[k])

(***************************************************************************)
(* C24: pattern fulfilment, checked under SpecFulfills.                    *)
(***************************************************************************)
\* the symbol is one the filter allows
Allowed(symbol, filter) ==
    CASE filter.kind = "IsAny" -> TRUE
      [] filter.kind = "IsNumber" -> symbol \notin {"Minus", "Plus", "Equal"}
      [] filter.kind = "IsOperator" -> symbol \in {"Minus", "Plus", "Equal"}
      [] filter.kind = "List" ->
            \E j \in 1..Len(filter.symbols) : filter.symbols[j] = symbol

\* C24: fulfills_abstract_equation(e, p) is true exactly when for every
\* index below min(len(e), len(p)) the symbol of e is in the symbol list of
\* p's filter; positions of the longer one beyond the other's length are
\* never checked, so a length mismatch in either direction is no failure.
C24_FulfilsOnCommonPrefix ==
    Returned =>
        LET e == call.self
            p == call.abstract_equation
            shared == IF Len(e) < Len(p) THEN Len(e) ELSE Len(p)
        IN  /\ result.value <=> \A i \in 1..shared : Allowed(e[i], p[i])
            /\ result.value <=>
                  fulfills_abstract_equation(SubSeq(e, 1, shared),
                                             SubSeq(p, 1, shared))

\* C24 witness: an equation shorter than the pattern has been accepted
\* although the pattern's next filter allows no symbol at all.
C24_Witness ==
    /\ Returned
    /\ call.self = <<"Three">>
    /\ call.abstract_equation = <<IsNumber, List(<<>>)>>
    /\ result.value = TRUE

(***************************************************************************)
(* C25: validation, checked under SpecMathematicallyValidate.              *)
(***************************************************************************)
\* the positions of an equation where a piece starts: the first position
\* and the one after every Equal
PieceStarts(e) == {1} \cup {i + 1 : i \in {j \in 1..Len(e) : e[j] = "Equal"}}

\* the piece of the equation that starts at position a: the symbols up to
\* the next Equal or the end (none when an Equal or the end is at a)
PieceAt(e, a) ==
    LET b == CHOOSE b \in (a - 1)..Len(e) :
                /\ \A j \in a..b : e[j] # "Equal"
                /\ b = Len(e) \/ e[b + 1] = "Equal"
    IN  SubSeq(e, a, b)

\* C25: mathematically_validate(e) succeeds if and only if the plain text
\* of e, split on '=', gives at least two pieces, every piece evaluates as
\* an integer +/- expression (an empty piece does not), and all pieces have
\* the same value; an equation without '=' or with a leading, trailing or
\* doubled '=' is rejected, and the chain 2=2=2 is accepted.
C25_ValidateIff ==
    Returned =>
        LET e == call.self
            starts == PieceStarts(e)
            value(a) == eval_int(to_plain_text(PieceAt(e, a)))
        IN  /\ result.value <=>
                  /\ Cardinality(starts) >= 2
                  /\ \A a \in starts : value(a).ok
                  /\ \A a \in starts : \A b \in starts :
                        value(a).value = value(b).value
            /\ (\A i \in 1..Len(e) : e[i] # "Equal") => ~result.value
            /\ (e # <<>> /\ (e[1] = "Equal" \/ e[Len(e)] = "Equal"))
                  => ~result.value
            /\ (\E i \in 1..(Len(e) - 1) : e[i] = "Equal" /\ e[i + 1] = "Equal")
                  => ~result.value
            /\ e = <<"Two", "Equal", "Two", "Equal", "Two">> => result.value

\* C25 witness: the chain 2=2=2 has been accepted.
C25_Witness ==
    /\ Returned
    /\ call.self = <<"Two", "Equal", "Two", "Equal", "Two">>
    /\ result.value = TRUE

(***************************************************************************)
(* C26: the order of the plans, checked under SpecSolve.                   *)
(***************************************************************************)
\* the plan of n positions reached from the all-zero plan by the moves
\* (source(i), target(i)) for i in 1..m, indices 0-based
PlanOfMoves(n, m, source(_), target(_)) ==
    [k \in 1..n |->
        [remove |-> Cardinality({i \in 1..m : source(i) = k - 1}),
         add |-> Cardinality({i \in 1..m : target(i) = k - 1})]]

\* C26: move_n(m, n) is exactly the list, in lexicographic order of the
\* move sequences ((s1,t1),...,(sm,tm)) over [0,n) x [0,n) (first move most
\* significant, source index before target index), of the plans obtained
\* from the all-zero plan by adding 1 to remove at each si and 1 to add at
\* each ti; move_one on any of these plans returns its n^2 successors in
\* source-major, target-minor order.
C26_PlansLexicographic ==
    pc = "planned" =>
        LET n == Len(Equation)
            m == Budget
            weight == [i \in 1..m |-> Pow(n * n, m - i)]
            move(j, i) == (j \div weight[i]) % (n * n)
        IN  /\ Len(all_transition_sequences) = Pow(n * n, m)
            /\ \A j \in 1..Len(all_transition_sequences) :
                  all_transition_sequences[j] =
                      PlanOfMoves(n, m, LAMBDA i : move(j - 1, i) \div n,
                                        LAMBDA i : move(j - 1, i) % n)
            /\ \A plan \in Range(all_transition_sequences) :
                  LET successors == move_one(plan)
                  IN  /\ Len(successors) = n * n
                      /\ \A s \in 0..(n - 1) : \A t \in 0..(n - 1) :
                            successors[s * n + t + 1] =
                                [k \in 1..n |->
                                    [remove |-> plan[k].remove
                                        + (IF k = s + 1 THEN 1 ELSE 0),
                                     add |-> plan[k].add
                                        + (IF k = t + 1 THEN 1 ELSE 0)]]

\* C26 witness: move_n(2, 2) has returned; its second plan comes from the
\* moves (0,0),(0,1) and its seventh from the moves (0,1),(1,0).
C26_Witness ==
    /\ pc = "planned"
    /\ Budget = 2
    /\ Len(Equation) = 2
    /\ all_transition_sequences[2] =
          <<[remove |-> 2, add |-> 1], [remove |-> 0, add |-> 1]>>
    /\ all_transition_sequences[7] =
          <<[remove |-> 1, add |-> 1], [remove |-> 1, add |-> 1]>>

(***************************************************************************)
(* C27: matchstick conservation, checked under SpecSolve.                  *)
(***************************************************************************)
\* the flags of the nine-segment display that are lit for a symbol
Lit(symbol) == {p \in Range(Positions) : to_segment_display(symbol)[p]}

\* the number of lit segments of an equation
LitSegments(e) == SumSeq([i \in 1..Len(e) |-> Cardinality(Lit(e[i]))])

\* the number of segments lit in equation e and not in equation x, position
\* by position (both of the same length)
TurnedOff(e, x) ==
    SumSeq([i \in 1..Len(e) |-> Cardinality(Lit(e[i]) \ Lit(x[i]))])

\* C27: every equation in move_n_matchsticks(e, m) has the same length as e
\* and the same total number of lit segments, and differs from e in exactly
\* 2m segment flags over all positions (m turned off and m turned on); for
\* m >= 1 the result never contains e itself.
C27_MatchsticksConserved ==
    pc = "moved" =>
        \A x \in Range(transformed_equations) :
            /\ Len(x) = Len(Equation)
            /\ LitSegments(x) = LitSegments(Equation)
            /\ TurnedOff(Equation, x) = Budget
            /\ TurnedOff(x, Equation) = Budget
            /\ Budget >= 1 => x # Equation

\* C27 witness: move_n_matchsticks(3=3, 2) has returned and holds 5=5, two
\* matchsticks away from 3=3 with the same twelve lit segments.
C27_Witness ==
    /\ pc = "moved"
    /\ Budget = 2
    /\ Equation = <<"Three", "Equal", "Three">>
    /\ <<"Five", "Equal", "Five">> \in Range(transformed_equations)
    /\ LitSegments(Equation) = 12
    /\ TurnedOff(Equation, <<"Five", "Equal", "Five">>) = 2

InvalidStored == {x \in Range(wrappped_solution.solution_equations) : ~Valid(x)}

C30_ErrBranchesDead ==
    Returned =>
        \A e \in Range(derive_concrete_equations(Generator.riddle_equation_pattern)) :
            LET m == Generator.number_matchstick_movements
                outcome == searched(new_from_riddle(new_riddle(e, m)))
            IN  /\ \A plan \in Range(move_n(m, Len(e))) :
                      /\ get_number_of_transitions(plan) = Len(e)
                      /\ apply_transition_sequence(e, plan) # ShapeErr
                      /\ apply_transition_sequence(e, plan).ok
                /\ ~outcome.panicked
                /\ get_inner_reference(outcome.puzzle.wrappped_solution).ok

\* C30 witness: a generator with a solution pattern and a budget of at
\* least one has returned a puzzle, which passed the unwrapping of its
\* solution.
C30_Witness ==
    /\ Returned
    /\ Generator.solution_equation_pattern.some
    /\ Generator.number_matchstick_movements >= 1
    /\ result.value.puzzles # <<>>
    /\ ~result.value.panicked

====
